---- MODULE Spec2Model ----
(***************************************************************************)
(* The two tournament programs of the repository as one state machine:     *)
(* DebateTournament with its DebateAgents (src/DebateClass.py, run by      *)
(* src/main.py) and SocietyDebateTournament                                *)
(* (src/society_debate_tournament.py).  The initial state fixes which one  *)
(* runs.  One step is one blocking backend call (ollama.chat) together     *)
(* with the code that runs up to the next call, or one checkpoint write.   *)
(*                                                                         *)
(* A text is a sequence of symbols: a symbol is one character of a vote    *)
(* reply, or an opaque fragment (a piece of a prompt template, a generated *)
(* text).  An f-string is the concatenation of its pieces.  A Python dict  *)
(* is the sequence of its <<key, value>> pairs in insertion order.  An     *)
(* Optional value is <<>> (None) or <<v>>.  Wall-clock values (timestamps, *)
(* phase durations) are left out; a call's latency is one of Latencies.    *)
(***************************************************************************)
EXTENDS Integers, Sequences, FiniteSets, TLC

\* Largest num_agents explored (the constructor takes any count).
MaxAgents == 4
\* Vote replies explored: up to MaxPad other characters between an optional
\* first letter and a tail of up to MaxTail characters.
MaxPad == 10
MaxTail == 1
\* At most this many backend replies of a run differ from the default reply.
MaxOddReplies == 2

VARIABLES
    program,          \* the class whose run_tournament runs
    num_agents,       \* DebateTournament.num_agents, or num_bots
    agents,           \* DebateTournament.agents: agent index -> DebateAgent
    positions,        \* DebateTournament.positions (dict)
    societies,        \* SocietyDebateTournament.societies (dict)
    debates,          \* self.debates (list)
    votes,            \* self.votes (dict)
    phase_durations,  \* keys of tournament_metrics["phase_durations"], in order
    files,            \* the output directory: file name -> Optional content
    pc,               \* where run_tournament is
    idx,              \* the running phase's outer loop index (0-based)
    step,             \* run_debate: next call (1..4); voting: inner loop index
    local,            \* the locals of run_debate and of the voting loop
    request,          \* Optional: the last request sent to the backend
    response,         \* Optional: the last reply the backend returned
    calls,            \* number of backend calls issued so far
    odd               \* number of non-default replies received so far

vars == <<program, num_agents, agents, positions, societies, debates, votes,
          phase_durations, files, pc, idx, step, local, request, response,
          calls, odd>>

----------------------------------------------------------------------------
(* Configuration *)

Programs == {"DebateTournament", "SocietyDebateTournament"}

topic_question == <<"Describe your ideal society in 200 words.">>
position_label == <<"position">>
default_model == "llama3.2"
Latencies == {1}

AgentIds == 0 .. (num_agents - 1)

----------------------------------------------------------------------------
(* Python primitives *)

None == <<>>
Some(v) == <<v>>
\* Truthiness of an Optional[str]: None and "" are falsy.
Truthy(opt) == opt # None /\ opt[1] # <<>>
\* str() of an Optional[str] inside an f-string.
Str(opt) == IF opt = None THEN <<"None">> ELSE opt[1]

DictKeys(d) == [k \in 1 .. Len(d) |-> d[k][1]]
DictHas(d, key) == \E k \in 1 .. Len(d) : d[k][1] = key
DictGet(d, key) == d[CHOOSE k \in 1 .. Len(d) : d[k][1] = key][2]
\* d[key] = value: an existing key keeps its place, a new key goes last.
DictSet(d, key, value) ==
    IF DictHas(d, key)
    THEN [k \in 1 .. Len(d) |-> IF d[k][1] = key THEN <<key, value>> ELSE d[k]]
    ELSE Append(d, <<key, value>>)

RECURSIVE Sum(_)
Sum(s) == IF s = <<>> THEN 0 ELSE s[1] + Sum(Tail(s))

RECURSIVE Min(_)
Min(s) == IF Len(s) = 1 THEN s[1]
          ELSE LET m == Min(Tail(s)) IN IF s[1] <= m THEN s[1] ELSE m

RECURSIVE Max(_)
Max(s) == IF Len(s) = 1 THEN s[1]
          ELSE LET m == Max(Tail(s)) IN IF s[1] >= m THEN s[1] ELSE m

\* itertools.combinations(keys, 2): index pairs i < j in lexicographic order.
RECURSIVE PairsFrom(_, _, _)
PairsFrom(keys, i, j) ==
    IF i >= Len(keys) THEN <<>>
    ELSE IF j > Len(keys) THEN PairsFrom(keys, i + 1, i + 2)
    ELSE <<<<keys[i], keys[j]>>>> \o PairsFrom(keys, i, j + 1)

\* itertools.permutations(keys, 2) in its place: every ordered pair i # j.
permutations(keys) ==
    LET n == Len(keys) IN
    [k \in 1 .. n * (n - 1) |->
        LET i == ((k - 1) \div (n - 1)) + 1
            r == ((k - 1) % (n - 1)) + 1
        IN <<keys[i], keys[IF r < i THEN r ELSE r + 1]>>]

combinations(keys) == PairsFrom(keys, 1, 2)

----------------------------------------------------------------------------
(* DebateAgent *)

NewAgent(i) ==
    [agent_id |-> i,
     model |-> default_model,
     conversation_history |-> <<>>,
     initial_position |-> None,
     position_label |-> None,
     response_times |-> <<>>,
     total_time |-> 0,
     avg_response_time |-> 0,
     total_tokens |-> 0]

\* add_to_history that inserts the entry at the front.
add_to_history_front(history, role, content) ==
    <<[role |-> role, content |-> content]>> \o history

add_to_history(history, role, content) ==
    Append(history, [role |-> role, content |-> content])

SystemMessage(agent) ==
    [role |-> "system",
     content |-> <<"You are a member of a round table discussing ">>
                 \o Str(agent.position_label)
                 \o <<". Your stance is: ">>
                 \o Str(agent.initial_position) \o <<".">>]

\* get_context that tests the position against None, not for truth.
get_context_position_not_none(agent, additional_prompt) ==
    (IF agent.initial_position # None /\ agent.position_label # None
     THEN <<SystemMessage(agent)>> ELSE <<>>)
    \o agent.conversation_history
    \o <<[role |-> "user", content |-> additional_prompt]>>

get_context(agent, additional_prompt) ==
    (IF Truthy(agent.initial_position) /\ Truthy(agent.position_label)
     THEN <<SystemMessage(agent)>> ELSE <<>>)
    \o agent.conversation_history
    \o <<[role |-> "user", content |-> additional_prompt]>>

\* The messages generate_response sends.
Messages(agent, prompt, include_history) ==
    IF include_history THEN get_context(agent, prompt)
    ELSE <<[role |-> "user", content |-> prompt]>>

\* generate_response that also keeps the reply as the agent's position.
generate_response_sets_position(agent, prompt, content, elapsed) ==
    LET times == Append(agent.response_times, elapsed) IN
    [agent EXCEPT
        !.response_times = times,
        !.total_time = @ + elapsed,
        !.avg_response_time = Sum(times) \div Len(times),
        !.initial_position = Some(content),
        !.conversation_history =
            add_to_history(add_to_history(@, "user", prompt), "assistant", content)]

\* The agent after generate_response got `content` back after `elapsed`.
generate_response(agent, prompt, content, elapsed) ==
    LET times == Append(agent.response_times, elapsed) IN
    [agent EXCEPT
        !.response_times = times,
        !.total_time = @ + elapsed,
        !.avg_response_time = Sum(times) \div Len(times),
        !.conversation_history =
            add_to_history(add_to_history(@, "user", prompt), "assistant", content)]

\* set_initial_position that leaves conversation_history as it was.
set_initial_position_no_history(agent, question, label, content, elapsed) ==
    [generate_response(agent, question, content, elapsed) EXCEPT
        !.initial_position = Some(content),
        !.position_label = Some(label),
        !.conversation_history = agent.conversation_history]

set_initial_position(agent, question, label, content, elapsed) ==
    [generate_response(agent, question, content, elapsed) EXCEPT
        !.initial_position = Some(content),
        !.position_label = Some(label)]

\* get_metrics that counts the history's entries as responses.
get_metrics_counts_entries(agent) ==
    [agent_id |-> agent.agent_id,
     model |-> agent.model,
     total_responses |-> Len(agent.conversation_history),
     total_time |-> agent.total_time,
     avg_response_time |-> agent.avg_response_time,
     min_response_time |->
        IF agent.response_times # <<>> THEN Min(agent.response_times) ELSE 0,
     max_response_time |->
        IF agent.response_times # <<>> THEN Max(agent.response_times) ELSE 0,
     total_tokens |-> agent.total_tokens,
     conversation_length |-> Len(agent.conversation_history)]

get_metrics(agent) ==
    [agent_id |-> agent.agent_id,
     model |-> agent.model,
     total_responses |-> Len(agent.response_times),
     total_time |-> agent.total_time,
     avg_response_time |-> agent.avg_response_time,
     min_response_time |->
        IF agent.response_times # <<>> THEN Min(agent.response_times) ELSE 0,
     max_response_time |->
        IF agent.response_times # <<>> THEN Max(agent.response_times) ELSE 0,
     total_tokens |-> agent.total_tokens,
     conversation_length |-> Len(agent.conversation_history)]

----------------------------------------------------------------------------
(* The backend (ollama.chat): an opaque, blocking collaborator *)

\* The reply most calls get: a vote for A, and elsewhere a text of its own.
DefaultReply(kind, k) ==
    IF kind = "vote" THEN <<"A">> ELSE <<"reply", ToString(k)>>

\* The other replies the code can tell apart: an empty position (falsy in
\* _get_context), a vote without the letter A.
OddReplies(kind) ==
    CASE kind = "vote" -> {<<"B">>}
      [] kind = "position" -> {<<>>}
      [] OTHER -> {}

Replies(kind) ==
    {DefaultReply(kind, calls + 1)}
    \cup (IF odd < MaxOddReplies THEN OddReplies(kind) ELSE {})

----------------------------------------------------------------------------
(* DebateTournament: prompts *)

AgentKeys == [k \in 1 .. num_agents |-> k - 1]

rebuttal_prompt(opponent_position) ==
    <<"Your opponent's ">> \o position_label \o <<" is:\n">>
    \o Str(opponent_position)
    \o <<"\n\nPoint out specific weaknesses, contradictions, or problems with their ">>
    \o position_label
    \o <<".\nBe analytical and precise. Keep response under 150 words.">>

counter_prompt(opponent_rebuttal) ==
    <<"Your opponent criticized your ">> \o position_label \o <<" by saying:\n">>
    \o opponent_rebuttal
    \o <<"\n\nAddress their criticisms directly and explain why your ">>
    \o position_label
    \o <<" still holds.\nKeep response under 150 words.">>

format_debate_for_voting(debate) ==
    LET p == debate.participants
        r == debate.rounds
        pos_a == DictGet(positions, p[1]).position
        pos_b == DictGet(positions, p[2]).position
    IN <<"Judge this debate about ">> \o position_label
       \o <<"s.\n\n=== Initial Positions ===\nPosition A (">>
       \o <<"agent_", ToString(p[1])>> \o <<"): ">> \o pos_a
       \o <<"\n\nPosition B (">>
       \o <<"agent_", ToString(p[2])>> \o <<"): ">> \o pos_b
       \o <<"\n\n=== Debate ===\nA's criticism of B: ">> \o r[1].by[p[1]]
       \o <<"\n\nB's criticism of A: ">> \o r[1].by[p[2]]
       \o <<"\n\nA's defense: ">> \o r[2].by[p[1]]
       \o <<"\n\nB's defense: ">> \o r[2].by[p[2]]

vote_prompt(debate) ==
    format_debate_for_voting(debate)
    \o <<"\n\nBased on the strength of arguments and rebuttals, which ">>
    \o position_label
    \o <<" is more convincing?\nReply with only 'A' or 'B' and one sentence explaining why.">>

----------------------------------------------------------------------------
(* DebateTournament: voting and aggregation *)

\* vote_response[:10]
VoteWindow == 10

Prefix(s, n) == SubSeq(s, 1, IF Len(s) < n THEN Len(s) ELSE n)

\* parse_vote that takes the first of the letters A and B in the window.
parse_vote_first_marker(vote_response) ==
    LET window == Prefix(vote_response, VoteWindow)
        marks == {k \in 1 .. Len(window) : window[k] \in {"A", "B"}}
    IN IF marks = {} THEN "B"
       ELSE window[CHOOSE k \in marks : \A m \in marks : k <= m]

\* parse_vote that looks for the letter in the whole response.
parse_vote_whole_response(vote_response) ==
    IF \E k \in 1 .. Len(vote_response) : vote_response[k] = "A"
    THEN "A" ELSE "B"

\* "A" if "A" in vote_response[:10] else "B"
parse_vote(vote_response) ==
    IF \E k \in 1 .. Len(Prefix(vote_response, VoteWindow)) : vote_response[k] = "A"
    THEN "A" ELSE "B"

\* winner_of that names the agent by the letter's index, not the participant.
winner_by_letter_index(participants, vote) ==
    IF vote = "A" THEN 0 ELSE 1

\* winner_of with the two participants exchanged.
winner_of_swapped(participants, vote) ==
    IF vote = "A" THEN participants[2] ELSE participants[1]

winner_of(participants, vote) ==
    IF vote = "A" THEN participants[1] ELSE participants[2]

make_vote(agent_id, participants, vote_response) ==
    [voter_id |-> agent_id,
     winner_id |-> winner_of(participants, parse_vote(vote_response)),
     reasoning |-> vote_response,
     vote |-> parse_vote(vote_response)]

\* winner_count after the loop over a debate's votes.
RECURSIVE tally(_, _)
tally(vs, winner_count) ==
    IF vs = <<>> THEN winner_count
    ELSE LET w == vs[1].winner_id
             n == IF DictHas(winner_count, w) THEN DictGet(winner_count, w) ELSE 0
         IN tally(Tail(vs), DictSet(winner_count, w, n + 1))

\* max_key that keeps the last of the keys with the largest value.
max_key_last(d) ==
    LET k == CHOOSE k \in 1 .. Len(d) :
                 /\ \A m \in 1 .. Len(d) : d[m][2] <= d[k][2]
                 /\ \A m \in (k + 1) .. Len(d) : d[m][2] < d[k][2]
    IN d[k][1]

\* max(d, key=d.get) of a non-empty dict: the first key, in iteration order,
\* whose value no other exceeds.
max_key(d) ==
    LET k == CHOOSE k \in 1 .. Len(d) :
                 /\ \A m \in 1 .. Len(d) : d[m][2] <= d[k][2]
                 /\ \A m \in 1 .. (k - 1) : d[m][2] < d[k][2]
    IN d[k][1]

\* The loop of calculate_results over self.votes: the win counts when it
\* ends, and whether max() raised ValueError on an empty tally.
RECURSIVE count_wins(_, _)
count_wins(vote_items, win_counts) ==
    IF vote_items = <<>> THEN [raised |-> FALSE, win_counts |-> win_counts]
    ELSE LET winner_count == tally(vote_items[1][2].votes, <<>>) IN
         IF winner_count = <<>> THEN [raised |-> TRUE, win_counts |-> win_counts]
         ELSE LET w == max_key(winner_count) IN
              count_wins(Tail(vote_items),
                         DictSet(win_counts, w, DictGet(win_counts, w) + 1))

\* insert_desc that puts an item before the items of equal value.
insert_desc_unstable(sorted, item) ==
    LET p == Cardinality({k \in 1 .. Len(sorted) : sorted[k][2] > item[2]})
    IN SubSeq(sorted, 1, p) \o <<item>> \o SubSeq(sorted, p + 1, Len(sorted))

\* One insertion of a stable sort by descending value.
insert_desc(sorted, item) ==
    LET p == Cardinality({k \in 1 .. Len(sorted) : sorted[k][2] >= item[2]})
    IN SubSeq(sorted, 1, p) \o <<item>> \o SubSeq(sorted, p + 1, Len(sorted))

\* sorted(items, key=lambda x: x[1], reverse=True): stable, so items with
\* equal values keep their order.
RECURSIVE sorted_desc(_)
sorted_desc(items) ==
    IF items = <<>> THEN <<>>
    ELSE insert_desc(sorted_desc(SubSeq(items, 1, Len(items) - 1)), items[Len(items)])

----------------------------------------------------------------------------
(* SocietyDebateTournament: prompts *)

society_prompt ==
    <<"Describe your ideal society in 200 words. Include: [...] Be specific and consistent.">>

society_rebuttal_prompt(opponent_society) ==
    <<"Your opponent proposes this society:\n">> \o opponent_society
    \o <<"\n\nPoint out potential flaws or problems with their society. Be specific.\nKeep response under 150 words.">>

closing_prompt(own_society, opponent_rebuttal) ==
    <<"Defend why your society is better.\nYour society: ">> \o own_society
    \o <<"\nTheir criticism: ">> \o opponent_rebuttal
    \o <<"\nKeep response under 100 words.">>

\* debate_text of vote_on_debate
debate_text(debate) ==
    LET p == debate.participants
        r == debate.rounds
    IN <<"Judge this debate between two ideal societies.\n\nSociety A: ">>
       \o r[1].by[p[1]] \o <<"\n\nSociety B: ">> \o r[1].by[p[2]]
       \o <<"\n\nA's criticism of B: ">> \o r[2].by[p[1]]
       \o <<"\n\nB's criticism of A: ">> \o r[2].by[p[2]]
       \o <<"\n\nA's defense: ">> \o r[3].by[p[1]]
       \o <<"\n\nB's defense: ">> \o r[3].by[p[2]]
       \o <<"\n\nWhich society would you rather live in? Reply with only 'A' or 'B' and one sentence explaining why.">>

\* The vote vote_on_debate returns.
society_vote(voter_id, participants, vote_text) ==
    [voter_id |-> voter_id,
     winner_id |-> winner_of(participants, parse_vote(vote_text)),
     reasoning |-> vote_text]

----------------------------------------------------------------------------
(* The state machine of run_tournament *)

FileNames ==
    {"positions.json", "debates.json", "votes.json", "tournament_results.json",
     "societies.json", "tournament_summary.json"}

NoLocals ==
    [rebuttal_a |-> None, rebuttal_b |-> None, counter_a |-> None,
     closing_a |-> None, debate_votes |-> <<>>]

\* DebateTournament.__init__, SocietyDebateTournament.__init__
Init ==
    /\ program \in Programs
    /\ num_agents \in 2 .. MaxAgents
    /\ agents = IF program = "DebateTournament"
                THEN [i \in 0 .. (num_agents - 1) |-> NewAgent(i)]
                ELSE <<>>
    /\ positions = <<>>
    /\ societies = <<>>
    /\ debates = <<>>
    /\ votes = <<>>
    /\ phase_durations = <<>>
    /\ files = [f \in FileNames |-> None]
    /\ pc = "positions"
    /\ idx = 0
    /\ step = 0
    /\ local = NoLocals
    /\ request = None
    /\ response = None
    /\ calls = 0
    /\ odd = 0

\* debate_pairs in the opposite order.
debate_pairs_reversed ==
    LET pairs == combinations(AgentKeys)
    IN [k \in 1 .. Len(pairs) |-> pairs[Len(pairs) + 1 - k]]

\* debate_pairs of run_phase_2_debates
debate_pairs == combinations(AgentKeys)

\* NextVoter that skips the first participant only.
NextVoterSkipsOne(participants, from) ==
    IF \E j \in from .. (num_agents - 1) : j # participants[1]
    THEN CHOOSE j \in from .. (num_agents - 1) :
           /\ j # participants[1]
           /\ \A m \in from .. (j - 1) : m = participants[1]
    ELSE num_agents

\* The inner loop of run_phase_3_voting: the first agent index from `from`
\* on that is not a participant, num_agents when the loop is over.
NextVoter(participants, from) ==
    IF \E j \in from .. (num_agents - 1) :
           j # participants[1] /\ j # participants[2]
    THEN CHOOSE j \in from .. (num_agents - 1) :
           /\ j # participants[1] /\ j # participants[2]
           /\ \A m \in from .. (j - 1) : m = participants[1] \/ m = participants[2]
    ELSE num_agents

\* run_debate's arguments and its four prompts.
agent_a_id == debate_pairs[idx + 1][1]

agent_b_id == debate_pairs[idx + 1][2]

rebuttal_prompt_a == rebuttal_prompt(agents[agent_b_id].initial_position)

rebuttal_prompt_b == rebuttal_prompt(agents[agent_a_id].initial_position)

\* counter_prompt_a built from the agent's own rebuttal.
counter_prompt_own_rebuttal == counter_prompt(Str(local.rebuttal_a))

counter_prompt_a == counter_prompt(Str(local.rebuttal_b))

counter_prompt_b == counter_prompt(Str(local.rebuttal_a))

\* Whether run_tournament is about to call the backend.
CallPending ==
    \/ pc = "positions" /\ idx < num_agents
    \/ pc = "debates" /\ idx < Len(debate_pairs)
    \/ /\ pc = "voting" /\ idx < Len(debates)
       /\ NextVoter(debates[idx + 1].participants, step) < num_agents

\* The call DebateTournament is about to make: the agent, the prompt and
\* include_history.
TournamentCall ==
    CASE pc = "positions" ->
           [kind |-> "position", agent_id |-> idx,
            prompt |-> topic_question, include_history |-> FALSE]
      [] pc = "debates" ->
           [kind |-> "debate", include_history |-> TRUE,
            agent_id |-> IF step \in {1, 3} THEN agent_a_id ELSE agent_b_id,
            prompt |-> (CASE step = 1 -> rebuttal_prompt_a
                          [] step = 2 -> rebuttal_prompt_b
                          [] step = 3 -> counter_prompt_a
                          [] step = 4 -> counter_prompt_b)]
      [] pc = "voting" ->
           [kind |-> "vote", include_history |-> TRUE,
            agent_id |-> NextVoter(debates[idx + 1].participants, step),
            prompt |-> vote_prompt(debates[idx + 1])]

\* SocietyDebateTournament's societies and the prompts of its run_debate.
society_a == DictGet(societies, agent_a_id).description

society_b == DictGet(societies, agent_b_id).description

society_rebuttal_prompt_a == society_rebuttal_prompt(society_b)

society_rebuttal_prompt_b == society_rebuttal_prompt(society_a)

closing_prompt_a == closing_prompt(society_a, Str(local.rebuttal_b))

closing_prompt_b == closing_prompt(society_b, Str(local.rebuttal_a))

\* The call SocietyDebateTournament is about to make, and the bot it is for.
SocietyCall ==
    CASE pc = "positions" ->
           [kind |-> "society", agent_id |-> idx, prompt |-> society_prompt]
      [] pc = "debates" ->
           [kind |-> "debate",
            agent_id |-> IF step \in {1, 3} THEN agent_a_id ELSE agent_b_id,
            prompt |-> (CASE step = 1 -> society_rebuttal_prompt_a
                          [] step = 2 -> society_rebuttal_prompt_b
                          [] step = 3 -> closing_prompt_a
                          [] step = 4 -> closing_prompt_b)]
      [] pc = "voting" ->
           [kind |-> "vote",
            agent_id |-> NextVoter(debates[idx + 1].participants, step),
            prompt |-> debate_text(debates[idx + 1])]

NextCall ==
    IF program = "DebateTournament" THEN TournamentCall ELSE SocietyCall

\* Send with one conversation history that all agents share.
SendSharedHistory(call) ==
    /\ request' = Some(
         IF program = "DebateTournament"
         THEN [agent_id |-> call.agent_id,
               model |-> agents[call.agent_id].model,
               messages |-> Messages([agents[call.agent_id] EXCEPT
                                         !.conversation_history =
                                             agents[0].conversation_history
                                             \o agents[1].conversation_history],
                                     call.prompt, call.include_history)]
         ELSE [agent_id |-> call.agent_id,
               model |-> default_model,
               messages |-> <<[role |-> "user", content |-> call.prompt]>>])
    /\ calls' = calls + 1

\* ollama.chat is called: what it is sent.
Send(call) ==
    /\ request' = Some(
         IF program = "DebateTournament"
         THEN [agent_id |-> call.agent_id,
               model |-> agents[call.agent_id].model,
               messages |-> Messages(agents[call.agent_id], call.prompt,
                                     call.include_history)]
         ELSE [agent_id |-> call.agent_id,
               model |-> default_model,
               messages |-> <<[role |-> "user", content |-> call.prompt]>>])
    /\ calls' = calls + 1

Receive(kind, content) ==
    /\ response' = Some(content)
    /\ odd' = IF content = DefaultReply(kind, calls + 1) THEN odd ELSE odd + 1

\* GeneratePosition that asks the first agent at every turn.
GeneratePositionFirstAgent ==
    /\ program = "DebateTournament"
    /\ pc = "positions" /\ idx < num_agents
    /\ \E content \in Replies("position"), elapsed \in Latencies :
         /\ Send([NextCall EXCEPT !.agent_id = 0])
         /\ Receive("position", content)
         /\ agents' = [agents EXCEPT ![0] =
                set_initial_position(@, topic_question, position_label,
                                     content, elapsed)]
         /\ positions' = DictSet(positions, idx,
                [agent_id |-> idx, position |-> content, model |-> agents[idx].model])
    /\ idx' = idx + 1
    /\ UNCHANGED <<program, societies, num_agents, debates, votes,
                   phase_durations, files, pc, step, local>>

\* run_phase_1_positions, one turn of its loop.
GeneratePosition ==
    /\ program = "DebateTournament"
    /\ pc = "positions" /\ idx < num_agents
    /\ \E content \in Replies("position"), elapsed \in Latencies :
         /\ Send(NextCall)
         /\ Receive("position", content)
         /\ agents' = [agents EXCEPT ![idx] =
                set_initial_position(@, topic_question, position_label,
                                     content, elapsed)]
         /\ positions' = DictSet(positions, idx,
                [agent_id |-> idx, position |-> content, model |-> agents[idx].model])
    /\ idx' = idx + 1
    /\ UNCHANGED <<program, societies, num_agents, debates, votes, phase_durations, files, pc, step, local>>

\* SavePositions without the write of positions.json.
SavePositionsNoWrite ==
    /\ program = "DebateTournament"
    /\ pc = "positions" /\ idx = num_agents
    /\ phase_durations' = Append(phase_durations, "positions")
    /\ pc' = "debates"
    /\ idx' = 0
    /\ step' = 1
    /\ UNCHANGED <<program, societies, num_agents, agents, positions, debates, votes, files, local,
                   request, calls, odd,
                   response>>

\* run_phase_1_positions after its loop: positions.json.
SavePositions ==
    /\ program = "DebateTournament"
    /\ pc = "positions" /\ idx = num_agents
    /\ phase_durations' = Append(phase_durations, "positions")
    /\ files' = [files EXCEPT !["positions.json"] =
            Some([topic_question |-> topic_question,
                  position_label |-> position_label,
                  positions |-> positions])]
    /\ pc' = "debates"
    /\ idx' = 0
    /\ step' = 1
    /\ UNCHANGED <<program, societies, num_agents, agents, positions, debates, votes, local, request,
                   calls, odd,
                   response>>

\* The debate record run_debate returns.
debate_record(a, b, rebuttal_a, rebuttal_b, counter_a, counter_b) ==
    [participants |-> <<a, b>>,
     rounds |-> <<[type |-> "first_rebuttal",
                   by |-> (a :> rebuttal_a @@ b :> rebuttal_b)],
                  [type |-> "counter_rebuttal",
                   by |-> (a :> counter_a @@ b :> counter_b)]>>]

\* run_debate, one of its four calls; after the fourth, the debate is
\* appended in run_phase_2_debates.
DebateCall ==
    /\ program = "DebateTournament"
    /\ pc = "debates" /\ idx < Len(debate_pairs)
    /\ \E content \in Replies("debate"), elapsed \in Latencies :
         LET call == NextCall
             a == agent_a_id
             b == agent_b_id
         IN /\ Send(call)
            /\ Receive("debate", content)
            /\ agents' = [agents EXCEPT ![call.agent_id] =
                   generate_response(@, call.prompt, content, elapsed)]
            /\ local' = CASE step = 1 -> [local EXCEPT !.rebuttal_a = Some(content)]
                          [] step = 2 -> [local EXCEPT !.rebuttal_b = Some(content)]
                          [] step = 3 -> [local EXCEPT !.counter_a = Some(content)]
                          [] step = 4 -> NoLocals
            /\ debates' = IF step = 4
                          THEN Append(debates,
                                 debate_record(a, b, local.rebuttal_a[1],
                                               local.rebuttal_b[1],
                                               local.counter_a[1], content))
                          ELSE debates
            /\ idx' = IF step = 4 THEN idx + 1 ELSE idx
            /\ step' = IF step = 4 THEN 1 ELSE step + 1
    /\ UNCHANGED <<program, societies, num_agents, positions, votes, phase_durations, files, pc>>

\* run_phase_2_debates after its loop: debates.json.
SaveDebates ==
    /\ program = "DebateTournament"
    /\ pc = "debates" /\ idx = Len(debate_pairs)
    /\ phase_durations' = Append(phase_durations, "debates")
    /\ files' = [files EXCEPT !["debates.json"] = Some(debates)]
    /\ pc' = "voting"
    /\ idx' = 0
    /\ step' = 0
    /\ UNCHANGED <<program, societies, num_agents, agents, positions, debates, votes, local, request,
                   calls, odd,
                   response>>

\* run_phase_3_voting, one turn of its inner loop that asks for a vote.
CastVote ==
    /\ program = "DebateTournament"
    /\ pc = "voting" /\ idx < Len(debates)
    /\ LET participants == debates[idx + 1].participants
           voter == NextVoter(participants, step)
       IN /\ voter < num_agents
          /\ \E vote_response \in Replies("vote"), elapsed \in Latencies :
               /\ Send(NextCall)
               /\ Receive("vote", vote_response)
               /\ agents' = [agents EXCEPT ![voter] =
                      generate_response(@, NextCall.prompt, vote_response, elapsed)]
               /\ local' = [local EXCEPT !.debate_votes =
                      Append(@, make_vote(voter, participants, vote_response))]
          /\ step' = voter + 1
    /\ UNCHANGED <<program, societies, num_agents, positions, debates, votes, phase_durations, files,
                   pc, idx>>

\* run_phase_3_voting, the end of its inner loop: self.votes[f"debate_{i}"].
StoreVotes ==
    /\ program = "DebateTournament"
    /\ pc = "voting" /\ idx < Len(debates)
    /\ NextVoter(debates[idx + 1].participants, step) = num_agents
    /\ votes' = DictSet(votes, idx,
           [participants |-> debates[idx + 1].participants,
            votes |-> local.debate_votes])
    /\ local' = NoLocals
    /\ idx' = idx + 1
    /\ step' = 0
    /\ UNCHANGED <<program, societies, num_agents, agents, positions, debates, phase_durations, files,
                   pc, request, calls, odd,
                   response>>

\* run_phase_3_voting after its loops: votes.json.
SaveVotes ==
    /\ program = "DebateTournament"
    /\ pc = "voting" /\ idx = Len(debates)
    /\ phase_durations' = Append(phase_durations, "voting")
    /\ files' = [files EXCEPT !["votes.json"] = Some(votes)]
    /\ pc' = "results"
    /\ UNCHANGED <<program, societies, num_agents, agents, positions, debates, votes, idx, step, local,
                   request, calls, odd,
                   response>>

initial_win_counts == [k \in 1 .. num_agents |-> <<k - 1, 0>>]

\* calculate_results: tournament_results.json, unless max() raises.
CalculateResults ==
    /\ program = "DebateTournament"
    /\ pc = "results"
    /\ LET counted == count_wins(votes, initial_win_counts) IN
       IF counted.raised
       THEN /\ pc' = "error"
            /\ UNCHANGED files
       ELSE /\ pc' = "done"
            /\ files' = [files EXCEPT !["tournament_results.json"] =
                   Some([num_agents |-> num_agents,
                         topic_question |-> topic_question,
                         position_label |-> position_label,
                         phase_durations |-> phase_durations,
                         rankings |-> sorted_desc(counted.win_counts),
                         win_counts |-> counted.win_counts,
                         agent_performance |->
                            [k \in 1 .. num_agents |->
                                <<k - 1, get_metrics(agents[k - 1])>>]])]
    /\ UNCHANGED <<program, societies, num_agents, agents, positions, debates, votes, phase_durations,
                   idx, step, local, request, calls, odd,
                   response>>

\* generate_ideal_society, called in the first loop of run_tournament.
GenerateSociety ==
    /\ program = "SocietyDebateTournament"
    /\ pc = "positions" /\ idx < num_agents
    /\ \E content \in Replies("society") :
         /\ Send(NextCall)
         /\ Receive("society", content)
         /\ societies' = DictSet(societies, idx,
                [bot_id |-> idx, description |-> content])
    /\ idx' = idx + 1
    /\ UNCHANGED <<program, num_agents, agents, positions, debates, votes,
                   phase_durations, files, pc, step, local>>

\* run_tournament: societies.json.
SaveSocieties ==
    /\ program = "SocietyDebateTournament"
    /\ pc = "positions" /\ idx = num_agents
    /\ files' = [files EXCEPT !["societies.json"] = Some(societies)]
    /\ pc' = "debates"
    /\ idx' = 0
    /\ step' = 1
    /\ UNCHANGED <<program, num_agents, agents, positions, societies, debates,
                   votes, phase_durations, local, request, calls, odd,
                   response>>

\* The debate SocietyDebateTournament.run_debate builds.
society_debate(a, b, opening_a, opening_b, rebuttal_a, rebuttal_b, closing_a, closing_b) ==
    [participants |-> <<a, b>>,
     rounds |-> <<[type |-> "opening",
                   by |-> (a :> opening_a @@ b :> opening_b)],
                  [type |-> "rebuttal",
                   by |-> (a :> rebuttal_a @@ b :> rebuttal_b)],
                  [type |-> "closing",
                   by |-> (a :> closing_a @@ b :> closing_b)]>>]

\* SocietyDebateTournament.run_debate, one of its four calls; after the
\* fourth it appends the debate to self.debates.
SocietyDebateCall ==
    /\ program = "SocietyDebateTournament"
    /\ pc = "debates" /\ idx < Len(debate_pairs)
    /\ \E content \in Replies("debate") :
         /\ Send(NextCall)
         /\ Receive("debate", content)
         /\ local' = CASE step = 1 -> [local EXCEPT !.rebuttal_a = Some(content)]
                       [] step = 2 -> [local EXCEPT !.rebuttal_b = Some(content)]
                       [] step = 3 -> [local EXCEPT !.closing_a = Some(content)]
                       [] step = 4 -> NoLocals
         /\ debates' = IF step = 4
                       THEN Append(debates,
                              society_debate(agent_a_id, agent_b_id,
                                             society_a, society_b,
                                             local.rebuttal_a[1],
                                             local.rebuttal_b[1],
                                             local.closing_a[1], content))
                       ELSE debates
         /\ idx' = IF step = 4 THEN idx + 1 ELSE idx
         /\ step' = IF step = 4 THEN 1 ELSE step + 1
    /\ UNCHANGED <<program, num_agents, agents, positions, societies, votes,
                   phase_durations, files, pc>>

\* run_tournament: debates.json.
SaveSocietyDebates ==
    /\ program = "SocietyDebateTournament"
    /\ pc = "debates" /\ idx = Len(debate_pairs)
    /\ files' = [files EXCEPT !["debates.json"] = Some(debates)]
    /\ pc' = "voting"
    /\ idx' = 0
    /\ step' = 0
    /\ UNCHANGED <<program, num_agents, agents, positions, societies, debates,
                   votes, phase_durations, local, request, calls, odd,
                   response>>

\* vote_on_debate, called in the inner voting loop of run_tournament.
VoteOnDebate ==
    /\ program = "SocietyDebateTournament"
    /\ pc = "voting" /\ idx < Len(debates)
    /\ LET participants == debates[idx + 1].participants
           voter == NextVoter(participants, step)
       IN /\ voter < num_agents
          /\ \E vote_text \in Replies("vote") :
               /\ Send(NextCall)
               /\ Receive("vote", vote_text)
               /\ local' = [local EXCEPT !.debate_votes =
                      Append(@, society_vote(voter, participants, vote_text))]
          /\ step' = voter + 1
    /\ UNCHANGED <<program, num_agents, agents, positions, societies, debates,
                   votes, phase_durations, files, pc, idx>>

\* run_tournament, the end of the inner voting loop: self.votes[f"debate_{i}"].
StoreSocietyVotes ==
    /\ program = "SocietyDebateTournament"
    /\ pc = "voting" /\ idx < Len(debates)
    /\ NextVoter(debates[idx + 1].participants, step) = num_agents
    /\ votes' = DictSet(votes, idx,
           [participants |-> debates[idx + 1].participants,
            votes |-> local.debate_votes])
    /\ local' = NoLocals
    /\ idx' = idx + 1
    /\ step' = 0
    /\ UNCHANGED <<program, num_agents, agents, positions, societies, debates,
                   phase_durations, files, pc, request, calls, odd,
                   response>>

\* run_tournament: votes.json.
SaveSocietyVotes ==
    /\ program = "SocietyDebateTournament"
    /\ pc = "voting" /\ idx = Len(debates)
    /\ files' = [files EXCEPT !["votes.json"] = Some(votes)]
    /\ pc' = "results"
    /\ UNCHANGED <<program, num_agents, agents, positions, societies, debates,
                   votes, phase_durations, idx, step, local, request, calls, odd,
                   response>>

\* calculate_rankings: tournament_summary.json, unless max() raises.
CalculateRankings ==
    /\ program = "SocietyDebateTournament"
    /\ pc = "results"
    /\ LET counted == count_wins(votes, initial_win_counts) IN
       IF counted.raised
       THEN /\ pc' = "error"
            /\ UNCHANGED files
       ELSE /\ pc' = "done"
            /\ files' = [files EXCEPT !["tournament_summary.json"] =
                   Some([rankings |-> sorted_desc(counted.win_counts),
                         win_counts |-> counted.win_counts,
                         total_debates |-> Len(debates)])]
    /\ UNCHANGED <<program, num_agents, agents, positions, societies, debates,
                   votes, phase_durations, idx, step, local, request, calls, odd,
                   response>>

\* BackendFailure that saves what the running phase has so far.
BackendFailureSavesProgress ==
    /\ CallPending
    /\ Send(NextCall)
    /\ pc' = "failed"
    /\ files' = CASE pc = "positions" ->
                      [files EXCEPT !["positions.json"] = Some(positions),
                                    !["societies.json"] = Some(societies)]
                  [] pc = "debates" -> [files EXCEPT !["debates.json"] = Some(debates)]
                  [] pc = "voting" -> [files EXCEPT !["votes.json"] = Some(votes)]
    /\ UNCHANGED <<program, societies, num_agents, agents, positions, debates,
                   votes, phase_durations, idx, step, local, odd, response>>

\* ollama.chat raises: nothing catches it, run_tournament ends.
BackendFailure ==
    /\ CallPending
    /\ Send(NextCall)
    /\ pc' = "failed"
    /\ UNCHANGED <<program, societies, num_agents, agents, positions, debates, votes, phase_durations,
                   files, idx, step, local, odd,
                   response>>

Next ==
    \/ GeneratePosition
    \/ SavePositions
    \/ DebateCall
    \/ SaveDebates
    \/ CastVote
    \/ StoreVotes
    \/ SaveVotes
    \/ CalculateResults
    \/ GenerateSociety
    \/ SaveSocieties
    \/ SocietyDebateCall
    \/ SaveSocietyDebates
    \/ VoteOnDebate
    \/ StoreSocietyVotes
    \/ SaveSocietyVotes
    \/ CalculateRankings
    \/ BackendFailure

Spec == Init /\ [][Next]_vars

----------------------------------------------------------------------------
(* Vote extraction alone: a vote reply of any shape reaches the lines that *)
(* parse and record it.                                                    *)

Characters == {"A", "B", "x"}

RECURSIVE TextsUpTo(_)
TextsUpTo(n) ==
    IF n = 0 THEN {<<>>}
    ELSE TextsUpTo(n - 1)
         \cup {Append(t, c) : t \in {u \in TextsUpTo(n - 1) : Len(u) = n - 1},
                              c \in Characters}

Fill(n) == [k \in 1 .. n |-> "x"]

\* The vote replies explored.
VoteTexts ==
    {head \o Fill(n) \o tail :
        head \in TextsUpTo(1), n \in 0 .. MaxPad, tail \in TextsUpTo(MaxTail)}

\* A third agent has just answered the vote prompt of a debate between the
\* first two.
VoteInit ==
    /\ program \in Programs
    /\ num_agents = 3
    /\ agents = IF program = "DebateTournament"
                THEN [i \in 0 .. (num_agents - 1) |-> NewAgent(i)]
                ELSE <<>>
    /\ positions = <<>>
    /\ societies = <<>>
    /\ debates = <<>>
    /\ votes = <<>>
    /\ phase_durations = <<>>
    /\ files = [f \in FileNames |-> None]
    /\ pc = "parse"
    /\ idx = 0
    /\ step = 0
    /\ local = NoLocals
    /\ request = None
    /\ response \in {Some(text) : text \in VoteTexts}
    /\ calls = 0
    /\ odd = 0

\* run_phase_3_voting: the vote is parsed and appended to debate_votes.
ParseVote ==
    /\ program = "DebateTournament"
    /\ pc = "parse"
    /\ local' = [local EXCEPT !.debate_votes =
           Append(@, make_vote(2, <<0, 1>>, response[1]))]
    /\ pc' = "parsed"
    /\ UNCHANGED <<program, num_agents, agents, positions, societies, debates,
                   votes, phase_durations, files, idx, step, request, response,
                   calls, odd>>

\* vote_on_debate: the vote is parsed, and appended in run_tournament.
ParseSocietyVote ==
    /\ program = "SocietyDebateTournament"
    /\ pc = "parse"
    /\ local' = [local EXCEPT !.debate_votes =
           Append(@, society_vote(2, <<0, 1>>, response[1]))]
    /\ pc' = "parsed"
    /\ UNCHANGED <<program, num_agents, agents, positions, societies, debates,
                   votes, phase_durations, files, idx, step, request, response,
                   calls, odd>>

VoteNext ==
    \/ ParseVote
    \/ ParseSocietyVote

VoteSpec == VoteInit /\ [][VoteNext]_vars

----------------------------------------------------------------------------
(* Properties *)

Range(s) == {s[k] : k \in 1 .. Len(s)}

RECURSIVE Ascending(_)
Ascending(S) ==
    IF S = {} THEN <<>>
    ELSE LET m == CHOOSE x \in S : \A y \in S : x <= y
         IN <<m>> \o Ascending(S \ {m})

IsPrefix(s, t) == Len(s) <= Len(t) /\ SubSeq(t, 1, Len(s)) = s

\* What a request asks for, read off the last message it carries.
LastPrompt(req) == req.messages[Len(req.messages)].content
IsPositionRequest(req) == LastPrompt(req) \in {topic_question, society_prompt}
IsDebateRequest(req) ==
    LastPrompt(req)[1] \in {rebuttal_prompt(<<>>)[1], counter_prompt(<<>>)[1],
                            society_rebuttal_prompt(<<>>)[1],
                            closing_prompt(<<>>, <<>>)[1]}
IsVoteRequest(req) ==
    LastPrompt(req)[1] \in {"Judge this debate about ",
                            "Judge this debate between two ideal societies.\n\nSociety A: "}

NumPairs == (num_agents * (num_agents - 1)) \div 2

PositionsCheckpointed ==
    IF program = "DebateTournament"
    THEN /\ DictKeys(positions) = AgentKeys
         /\ files["positions.json"] # None
         /\ files["positions.json"][1].positions = positions
    ELSE /\ DictKeys(societies) = AgentKeys
         /\ files["societies.json"] = Some(societies)

DebatesCheckpointed ==
    /\ Len(debates) = NumPairs
    /\ files["debates.json"] = Some(debates)

VotesCheckpointed ==
    /\ Len(votes) = NumPairs
    /\ files["votes.json"] = Some(votes)

\* The file aggregation writes, and what it holds.
ResultsFile ==
    IF program = "DebateTournament" THEN "tournament_results.json"
    ELSE "tournament_summary.json"

Results == files[ResultsFile][1]

Aggregated == files[ResultsFile] # None

\* C1: the phases run in the order positions, debates, voting, aggregation,
\* and each phase's checkpoint is on disk before the next phase does
\* anything: a debate request is sent only with all positions generated and
\* the positions checkpoint written, a vote request only with all debates
\* held and debates.json written, and the results file is written only with
\* votes.json written.
C1_PhaseOrder ==
    [][/\ calls' # calls =>
            LET req == request'[1] IN
            /\ IsPositionRequest(req) =>
                    /\ \A f \in FileNames : files[f] = None
                    /\ debates = <<>> /\ votes = <<>>
            /\ IsDebateRequest(req) =>
                    /\ PositionsCheckpointed
                    /\ files["debates.json"] = None
                    /\ votes = <<>>
            /\ IsVoteRequest(req) =>
                    /\ PositionsCheckpointed /\ DebatesCheckpointed
                    /\ files["votes.json"] = None
       /\ files'["debates.json"] # files["debates.json"] => PositionsCheckpointed
       /\ files'["votes.json"] # files["votes.json"] =>
            PositionsCheckpointed /\ DebatesCheckpointed
       /\ files'[ResultsFile] # files[ResultsFile] =>
            PositionsCheckpointed /\ DebatesCheckpointed /\ VotesCheckpointed
      ]_vars

C1_Witness ==
    /\ pc = "done" /\ num_agents = MaxAgents
    /\ PositionsCheckpointed /\ DebatesCheckpointed /\ VotesCheckpointed
    /\ Aggregated

\* The same two agents, in either order.
SamePair(p, q) ==
    \/ p[1] = q[1] /\ p[2] = q[2]
    \/ p[1] = q[2] /\ p[2] = q[1]

\* C2: no agent debates itself, no unordered pair debates twice (in either
\* order), and once the debate phase is over the debates are exactly the
\* n(n-1)/2 unordered pairs of distinct agents.
C2_RoundRobin ==
    /\ \A k \in 1 .. Len(debates) :
         /\ debates[k].participants[1] \in AgentIds
         /\ debates[k].participants[2] \in AgentIds
         /\ debates[k].participants[1] # debates[k].participants[2]
         /\ \A m \in 1 .. (k - 1) :
              ~SamePair(debates[k].participants, debates[m].participants)
    /\ files["debates.json"] # None =>
         /\ Len(debates) = NumPairs
         /\ \A a, b \in AgentIds :
              a < b => \E k \in 1 .. Len(debates) :
                          SamePair(debates[k].participants, <<a, b>>)

C2_Witness ==
    /\ files["debates.json"] # None /\ num_agents = MaxAgents
    /\ Len(debates) = NumPairs

VotingOver == pc \in {"results", "done", "error"}

\* C3: after the voting phase there is one vote list per debate, under the
\* debate's index, and it holds exactly one vote from each agent that is not
\* a participant of the debate, in registration order: n - 2 votes, none
\* from a participant.
C3_Voters ==
    VotingOver =>
        /\ Len(votes) = Len(debates)
        /\ \A k \in 1 .. Len(votes) :
             LET vote_data == votes[k][2] IN
             /\ votes[k][1] = k - 1
             /\ vote_data.participants = debates[k].participants
             /\ Len(vote_data.votes) = num_agents - 2
             /\ [j \in 1 .. Len(vote_data.votes) |-> vote_data.votes[j].voter_id]
                  = Ascending(AgentIds \ Range(vote_data.participants))

C3_Witness ==
    /\ VotingOver /\ num_agents = MaxAgents
    /\ Len(votes) = NumPairs

\* The choice of a vote: the letter DebateTournament records with it, the
\* letter vote_on_debate reads from the text it records.
Choice(vote) ==
    IF program = "DebateTournament" THEN vote.vote ELSE parse_vote(vote.reasoning)

NamesParticipant(participants, vote) ==
    /\ Choice(vote) \in {"A", "B"}
    /\ vote.winner_id \in Range(participants)
    /\ Choice(vote) = "A" => vote.winner_id = participants[1]
    /\ Choice(vote) = "B" => vote.winner_id = participants[2]

\* C4: every recorded vote, stored or still in debate_votes, names one of
\* the two participants of its debate: the first when the choice is A, the
\* second when it is B.
C4_WinnerIsParticipant ==
    /\ \A k \in 1 .. Len(votes) :
         \A j \in 1 .. Len(votes[k][2].votes) :
            NamesParticipant(votes[k][2].participants, votes[k][2].votes[j])
    /\ \A j \in 1 .. Len(local.debate_votes) :
         NamesParticipant(debates[idx + 1].participants, local.debate_votes[j])

C4_Witness ==
    \E k \in 1 .. Len(votes) :
        /\ votes[k][2].participants[1] > 0
        /\ \E j \in 1 .. Len(votes[k][2].votes) : Choice(votes[k][2].votes[j]) = "A"
        /\ \E j \in 1 .. Len(votes[k][2].votes) : Choice(votes[k][2].votes[j]) = "B"

\* C5 (as claimed): once aggregation has run, for every n >= 2, the win
\* counts are there and sum to the number of debates.
C5_WinsSumToDebates ==
    pc \in {"done", "error"} =>
        /\ Aggregated
        /\ Sum([k \in 1 .. Len(Results.win_counts) |-> Results.win_counts[k][2]])
             = Len(debates)

\* C5, for the agent counts on which aggregation completes: it completes
\* exactly when n >= 3, and then the win counts sum to the number of debates.
C5_WinsSumFromThreeAgents ==
    /\ pc = "error" => num_agents = 2 /\ ~Aggregated
    /\ pc = "done" =>
        /\ num_agents >= 3 /\ Aggregated
        /\ Sum([k \in 1 .. Len(Results.win_counts) |-> Results.win_counts[k][2]])
             = Len(debates)

VotesFor(vote_data, agent_id) ==
    Cardinality({j \in 1 .. Len(vote_data.votes) :
                    vote_data.votes[j].winner_id = agent_id})

\* The participant with strictly more votes; on equal counts the one the
\* earliest vote names.
ExpectedWinner(vote_data) ==
    LET p == vote_data.participants
        na == VotesFor(vote_data, p[1])
        nb == VotesFor(vote_data, p[2])
    IN IF na > nb THEN p[1]
       ELSE IF nb > na THEN p[2]
       ELSE vote_data.votes[1].winner_id

\* C6: the winner aggregation credits for a debate with votes is the
\* participant named by strictly more of its votes, and on equal counts the
\* participant named by its earliest vote; the win counts written are the
\* numbers of debates so won.
C6_DebateWinner ==
    /\ VotingOver =>
         \A k \in 1 .. Len(votes) :
            votes[k][2].votes # <<>> =>
               max_key(tally(votes[k][2].votes, <<>>)) = ExpectedWinner(votes[k][2])
    /\ Aggregated =>
         \A a \in AgentIds :
            DictGet(Results.win_counts, a)
              = Cardinality({k \in 1 .. Len(votes) :
                                ExpectedWinner(votes[k][2]) = a})

\* A debate is aggregated whose votes are tied and whose earliest vote is B.
C6_Witness ==
    /\ Aggregated
    /\ \E k \in 1 .. Len(votes) :
         LET vote_data == votes[k][2] IN
         /\ VotesFor(vote_data, vote_data.participants[1])
              = VotesFor(vote_data, vote_data.participants[2])
         /\ vote_data.votes[1].winner_id = vote_data.participants[2]
         /\ DictGet(Results.win_counts, vote_data.participants[2]) > 0

\* C7: the rankings list every agent exactly once with its win count, in
\* non-increasing order of wins, agents with equal wins in registration
\* order.
C7_Rankings ==
    Aggregated =>
        LET r == Results.rankings IN
        /\ Len(r) = num_agents
        /\ \A a \in AgentIds :
             Cardinality({k \in 1 .. Len(r) : r[k][1] = a}) = 1
        /\ \A k \in 1 .. Len(r) : r[k][2] = DictGet(Results.win_counts, r[k][1])
        /\ \A k, m \in 1 .. Len(r) :
             k < m => \/ r[k][2] > r[m][2]
                      \/ r[k][2] = r[m][2] /\ r[k][1] < r[m][1]

\* Rankings with two agents tied and with a later agent ahead of an earlier.
C7_Witness ==
    /\ Aggregated
    /\ LET r == Results.rankings IN
       /\ \E k, m \in 1 .. Len(r) : k < m /\ r[k][2] = r[m][2]
       /\ \E k, m \in 1 .. Len(r) : k < m /\ r[k][1] > r[m][1]

\* The text a debate prompt embeds: both templates are three symbols, the
\* embedded text, three symbols.
Embedded(prompt) == SubSeq(prompt, 4, Len(prompt) - 3)

IsRebuttalPrompt(entry) ==
    entry.role = "user" /\ entry.content[1] = "Your opponent's "

IsCounterPrompt(entry) ==
    entry.role = "user" /\ entry.content[1] = "Your opponent criticized your "

Said(text) == [role |-> "assistant", content |-> text]

\* A participant's four history entries of a debate that has just ended:
\* asked to rebut `seen1` it said `said1`, asked to answer `seen2` it said
\* `said2`.
Exchange(history, seen1, said1, seen2, said2) ==
    LET n == Len(history) IN
    /\ n >= 4
    /\ IsRebuttalPrompt(history[n - 3]) /\ Embedded(history[n - 3].content) = seen1
    /\ history[n - 2] = Said(said1)
    /\ IsCounterPrompt(history[n - 1]) /\ Embedded(history[n - 1].content) = seen2
    /\ history[n] = Said(said2)

\* C8: when a debate between A and B is recorded, A was asked to rebut B's
\* initial position and B to rebut A's, then A was asked to answer exactly
\* B's round-1 text and B exactly A's; the four calls were made in the order
\* A, B, A, B, so both round-1 calls returned before a round-2 call was
\* made; and the record holds the two rounds, first_rebuttal then
\* counter_rebuttal, with one text per participant.  Every debate prompt
\* sent is the prompt entered in the agent's history.
C8_DebateProtocol ==
    [][/\ (program = "DebateTournament" /\ debates' # debates) =>
            LET d == debates'[Len(debates')]
                a == d.participants[1]
                b == d.participants[2]
                r == d.rounds
            IN /\ debates' = Append(debates, d)
               /\ Len(r) = 2
               /\ r[1].type = "first_rebuttal" /\ r[2].type = "counter_rebuttal"
               /\ DOMAIN r[1].by = {a, b} /\ DOMAIN r[2].by = {a, b}
               /\ Exchange(agents'[a].conversation_history,
                           agents[b].initial_position[1], r[1].by[a],
                           r[1].by[b], r[2].by[a])
               /\ Exchange(agents'[b].conversation_history,
                           agents[a].initial_position[1], r[1].by[b],
                           r[1].by[a], r[2].by[b])
               /\ r[1].by[a] = DefaultReply("debate", calls' - 3)
               /\ r[1].by[b] = DefaultReply("debate", calls' - 2)
               /\ r[2].by[a] = DefaultReply("debate", calls' - 1)
               /\ r[2].by[b] = DefaultReply("debate", calls')
       /\ (/\ program = "DebateTournament"
           /\ calls' # calls /\ pc' # "failed"
           /\ IsDebateRequest(request'[1])) =>
            LET h == agents'[request'[1].agent_id].conversation_history
            IN h[Len(h) - 1] = [role |-> "user", content |-> LastPrompt(request'[1])]
      ]_vars

\* A debate between the last two agents is recorded: both have debated before.
C8_Witness ==
    /\ program = "DebateTournament" /\ num_agents = MaxAgents
    /\ debates # <<>>
    /\ debates[Len(debates)].participants = <<num_agents - 2, num_agents - 1>>

\* C9 (as claimed): set_initial_position appends nothing to the history,
\* which is empty throughout and after phase 1.
C9_PositionLeavesHistory ==
    (program = "DebateTournament" /\ debates = <<>> /\ local = NoLocals) =>
        \A a \in AgentIds : agents[a].conversation_history = <<>>

\* C9 (amended): set_initial_position sends the question alone, stores the
\* reply as initial position with the label, and appends the question (user
\* turn) and the reply (assistant turn) to the history: until the first
\* debate call an agent's history is these two entries once its position is
\* generated, and empty before.
C9_PositionRecorded ==
    /\ (program = "DebateTournament" /\ debates = <<>> /\ local = NoLocals) =>
         \A a \in AgentIds :
            IF DictHas(positions, a)
            THEN LET position == DictGet(positions, a).position IN
                 /\ agents[a].initial_position = Some(position)
                 /\ agents[a].position_label = Some(position_label)
                 /\ agents[a].conversation_history =
                       <<[role |-> "user", content |-> topic_question],
                         Said(position)>>
            ELSE /\ agents[a].initial_position = None
                 /\ agents[a].conversation_history = <<>>
    /\ (/\ program = "DebateTournament"
        /\ request # None /\ IsPositionRequest(request[1])) =>
         request[1].messages = <<[role |-> "user", content |-> topic_question]>>

\* Phase 1 is over, with an empty position among those generated.
C9_Witness ==
    /\ program = "DebateTournament"
    /\ files["positions.json"] # None /\ debates = <<>> /\ local = NoLocals
    /\ num_agents = MaxAgents
    /\ \E a \in AgentIds : agents[a].initial_position = Some(<<>>)
    /\ \E a \in AgentIds : Truthy(agents[a].initial_position)

\* The reply a call that has just returned gave, as the caller recorded it.
Returned(req) ==
    IF IsPositionRequest(req) THEN positions'[Len(positions')][2].position
    ELSE IF IsVoteRequest(req)
    THEN local'.debate_votes[Len(local'.debate_votes)].reasoning
    ELSE DefaultReply("debate", calls')

\* C10: histories are append-only: a step leaves every history a prefix of
\* what it becomes; a call that returns extends the calling agent's history
\* by exactly the prompt sent (user turn) and the reply (assistant turn);
\* a call that fails, and every step that is no call, changes no history.
C10_HistoryAppendOnly ==
    [][program = "DebateTournament" => \A a \in AgentIds :
        LET h == agents[a].conversation_history
            h2 == agents'[a].conversation_history
        IN /\ IsPrefix(h, h2)
           /\ IF calls' # calls /\ pc' # "failed" /\ request'[1].agent_id = a
              THEN h2 = h \o <<[role |-> "user", content |-> LastPrompt(request'[1])],
                               Said(Returned(request'[1]))>>
              ELSE h2 = h
      ]_vars

\* An agent has answered the question, debated and voted.
C10_Witness ==
    /\ program = "DebateTournament" /\ num_agents = MaxAgents
    /\ \E a \in AgentIds :
         LET h == agents[a].conversation_history IN
         /\ Len(h) = 2 * (1 + 2 * (num_agents - 1) + 1)
         /\ h[Len(h) - 1].content[1] = "Judge this debate about "

\* The messages of a call with history: the stance as system message when
\* with_system, the agent's history as it is before the call, the prompt.
ContextIs(messages, agent, prompt, with_system) ==
    messages =
        (IF with_system
         THEN <<[role |-> "system",
                 content |-> <<"You are a member of a round table discussing ">>
                             \o agent.position_label[1]
                             \o <<". Your stance is: ">>
                             \o agent.initial_position[1] \o <<".">>]>>
         ELSE <<>>)
        \o agent.conversation_history
        \o <<[role |-> "user", content |-> prompt]>>

\* A step that calls generate_response with history.
CallWithHistory ==
    /\ program = "DebateTournament"
    /\ calls' # calls
    /\ NextCall.include_history

\* C11 (as claimed): the messages of a call with history are the system
\* message stating the stance if and only if the agent's position is set,
\* then the agent's history as it is before the call, then the new prompt.
C11_ContextWhenPositionSet ==
    [][CallWithHistory =>
         LET agent == agents[NextCall.agent_id] IN
         ContextIs(request'[1].messages, agent, NextCall.prompt,
                   agent.initial_position # None)
      ]_vars

\* C11 (amended): the system message is there if and only if the agent's
\* position and label are both non-empty texts; a position that is set to
\* the empty text gives none.  Then the agent's history as it is before
\* the call, in order, then the new prompt as last, user, message.
C11_ContextWhenPositionNonEmpty ==
    [][CallWithHistory =>
         LET agent == agents[NextCall.agent_id] IN
         ContextIs(request'[1].messages, agent, NextCall.prompt,
                   agent.initial_position \notin {None, Some(<<>>)}
                   /\ agent.position_label \notin {None, Some(<<>>)})
      ]_vars

\* A vote is asked of an agent whose position is the empty text: the request
\* is its history and the prompt, without system message.
C11_Witness ==
    /\ program = "DebateTournament"
    /\ request # None /\ IsVoteRequest(request[1])
    /\ agents[request[1].agent_id].initial_position = Some(<<>>)
    /\ request[1].messages[1].role = "user"
    /\ Len(request[1].messages) > 3

\* The history part of a request's messages: without the system message and
\* without the new prompt.
HistoryPart(messages) ==
    SubSeq(messages, IF messages[1].role = "system" THEN 2 ELSE 1,
           Len(messages) - 1)

\* A generated text that no two calls return alike.
IsToken(text) == Len(text) = 2 /\ text[1] = "reply"

\* No agent but `a` gave `text` as its position or said it in a debate.
OnlySaidBy(a, text) ==
    /\ \A k \in 1 .. Len(positions') :
         positions'[k][2].position = text => positions'[k][1] = a
    /\ \A k \in 1 .. Len(debates') :
         \A r \in 1 .. Len(debates'[k].rounds) :
            \A b \in DOMAIN debates'[k].rounds[r].by :
               debates'[k].rounds[r].by[b] = text => b = a

\* C12: a step changes the history and the metrics of no agent but the one
\* a backend call of that step is made for; and the history part of the
\* messages sent for an agent is that agent's own history, whose responses
\* are its own: none is the position or a debate text of another agent.
C12_HistoriesIsolated ==
    [][program = "DebateTournament" =>
        /\ \A b \in AgentIds :
             (calls' = calls \/ request'[1].agent_id # b) => agents'[b] = agents[b]
        /\ calls' # calls =>
             LET a == request'[1].agent_id
                 sent == request'[1].messages
             IN IF NextCall.include_history
                THEN /\ HistoryPart(sent) = agents[a].conversation_history
                     /\ \A k \in 1 .. Len(HistoryPart(sent)) :
                          LET entry == HistoryPart(sent)[k] IN
                          (entry.role = "assistant" /\ IsToken(entry.content))
                              => OnlySaidBy(a, entry.content)
                ELSE Len(sent) = 1
      ]_vars

\* The last agent is asked for a vote after every agent has debated.
C12_Witness ==
    /\ program = "DebateTournament" /\ num_agents = MaxAgents
    /\ request # None /\ IsVoteRequest(request[1])
    /\ request[1].agent_id = num_agents - 1
    /\ Len(HistoryPart(request[1].messages)) >= 2 + 4 * (num_agents - 1)
    /\ \A b \in AgentIds : Len(agents[b].conversation_history) >= 2 + 4 * (num_agents - 1)

\* The characters vote extraction looks at: the first 10.
WindowChars(text) == {text[k] : k \in (1 .. Len(text)) \cap (1 .. 10)}

\* The vote just recorded and the reply it was read from.
ParsedVote == local.debate_votes[1]

\* C13: the recorded choice is A, and the winner the first participant, if
\* and only if the letter A is among the first 10 characters of the reply;
\* otherwise the choice is B and the winner the second participant.  Every
\* reply with the same first 10 characters is read the same way.
C13_VoteFromFirstTen ==
    pc = "parsed" =>
        LET text == response[1]
            letter == IF "A" \in WindowChars(text) THEN "A" ELSE "B"
        IN /\ ParsedVote.reasoning = text
           /\ ParsedVote.winner_id = (IF letter = "A" THEN 0 ELSE 1)
           /\ program = "DebateTournament" => ParsedVote.vote = letter
           /\ \A other \in VoteTexts :
                Prefix(other, 10) = Prefix(text, 10) => parse_vote(other) = letter

\* A reply whose only A is the 11th character is recorded as B.
C13_Witness ==
    /\ pc = "parsed"
    /\ response[1] = Append(Fill(10), "A")
    /\ ParsedVote.winner_id = 1

\* A backend call has failed.
Halted == pc = "failed"

\* C14: a backend call that fails writes no file, and after it nothing
\* happens: no further call, no write.  What is left is the checkpoints of
\* the phases completed before the failing call, each holding its phase's
\* complete output; no checkpoint of the phase the call was made in or of a
\* later phase, and no results file.
C14_FailureHalts ==
    /\ [](Halted =>
            /\ ~Aggregated
            /\ files["votes.json"] = None
            /\ IsPositionRequest(request[1]) => \A f \in FileNames : files[f] = None
            /\ IsDebateRequest(request[1]) =>
                    PositionsCheckpointed /\ files["debates.json"] = None
            /\ IsVoteRequest(request[1]) =>
                    PositionsCheckpointed /\ DebatesCheckpointed)
    /\ [][/\ (Halted' /\ ~Halted) => (files' = files /\ calls' = calls + 1)
          /\ Halted => UNCHANGED vars
         ]_vars

\* A vote call fails in a tournament of MaxAgents agents.
C14_Witness ==
    /\ Halted /\ num_agents = MaxAgents
    /\ IsVoteRequest(request[1])
    /\ files["debates.json"] = Some(debates)
    /\ local.debate_votes # <<>>

\* Every vote of the tournament chose A.
EveryVoteChoseA ==
    \A k \in 1 .. Len(votes) :
        \A j \in 1 .. Len(votes[k][2].votes) : Choice(votes[k][2].votes[j]) = "A"

\* C15: when every vote chose A, the earlier-registered participant, the
\* results of a tournament of n >= 3 agents give the agent registered at
\* position i (0-based) n-1-i wins and rank the agents in registration
\* order; with 3 agents the debates are (0,1), (0,2), (1,2) in that order,
\* the win counts 2, 1, 0.
C15_EarlierAlwaysWins ==
    (Aggregated /\ EveryVoteChoseA /\ num_agents >= 3) =>
        /\ Results.win_counts = [i \in 1 .. num_agents |-> <<i - 1, num_agents - i>>]
        /\ Results.rankings = [i \in 1 .. num_agents |-> <<i - 1, num_agents - i>>]
        /\ num_agents = 3 =>
             /\ [k \in 1 .. Len(debates) |-> debates[k].participants]
                  = <<(<<0, 1>>), (<<0, 2>>), (<<1, 2>>)>>
             /\ Results.win_counts = <<(<<0, 2>>), (<<1, 1>>), (<<2, 0>>)>>
             /\ Results.rankings = <<(<<0, 2>>), (<<1, 1>>), (<<2, 0>>)>>

\* The results of a tournament of three agents whose votes all chose A.
C15_Witness ==
    /\ Aggregated /\ EveryVoteChoseA /\ num_agents = 3
    /\ Len(votes) = 3 /\ \A k \in 1 .. 3 : Len(votes[k][2].votes) = 1

\* The number of pairs (a, b), a < b, of registration positions that come
\* before the pair (i, j) in lexicographic order.
PairsBefore(i, j) ==
    Cardinality({pair \in AgentIds \X AgentIds :
                    /\ pair[1] < pair[2]
                    /\ pair[1] < i \/ (pair[1] = i /\ pair[2] < j)})

\* C17: the debate at index k (0-based) is the k-th pair (i, j), i < j, of
\* registration positions in lexicographic order, the earlier-registered
\* agent its first participant; the votes stored k-th are stored under
\* index k and are those of the debate at index k, and the votes being
\* collected are for the debate at the voting loop's index.
C17_DebateOrder ==
    /\ \A k \in 1 .. Len(debates) :
         LET p == debates[k].participants IN
         /\ p[1] < p[2]
         /\ PairsBefore(p[1], p[2]) = k - 1
    /\ \A k \in 1 .. Len(votes) :
         /\ votes[k][1] = k - 1
         /\ votes[k][2].participants = debates[k].participants
         /\ \A j \in 1 .. Len(votes[k][2].votes) :
              votes[k][2].votes[j].winner_id \in Range(debates[k].participants)
    /\ (pc = "voting" /\ idx < Len(debates)) => Len(votes) = idx

\* All debates of MaxAgents agents are held and voted on.
C17_Witness ==
    /\ num_agents = MaxAgents
    /\ Len(debates) = NumPairs /\ Len(votes) = NumPairs
    /\ debates[NumPairs].participants = <<num_agents - 2, num_agents - 1>>

\* How often an agent, given its history, has been asked the question.
TimesAsked(history) ==
    Cardinality({k \in 1 .. Len(history) :
                    history[k] = [role |-> "user", content |-> topic_question]})

\* C18: an agent's position and label are set, and the question is sent,
\* only in phase 1, at the loop turn of that agent (turns are in
\* registration order) and while its position is not yet set; from the
\* end of phase 1 on every agent has been asked exactly once.
C18_PositionOnce ==
    [][program = "DebateTournament" =>
        /\ \A a \in AgentIds :
             (\/ agents'[a].initial_position # agents[a].initial_position
              \/ agents'[a].position_label # agents[a].position_label
              \/ (calls' # calls /\ IsPositionRequest(request'[1])
                                /\ request'[1].agent_id = a))
             => /\ pc = "positions" /\ idx = a
                /\ agents[a].initial_position = None
                /\ TimesAsked(agents[a].conversation_history) = 0
                /\ DictKeys(positions) = SubSeq(AgentKeys, 1, a)
                /\ calls' = calls + 1
                /\ request'[1].agent_id = a /\ IsPositionRequest(request'[1])
        /\ files'["positions.json"] # None =>
             \A a \in AgentIds :
                /\ TimesAsked(agents'[a].conversation_history) = 1
                /\ agents'[a].initial_position # None
      ]_vars

\* A tournament of MaxAgents agents is over; every agent was asked once.
C18_Witness ==
    /\ program = "DebateTournament" /\ pc = "done" /\ num_agents = MaxAgents
    /\ \A a \in AgentIds : TimesAsked(agents[a].conversation_history) = 1

\* The fields of a recorded vote.
VoteFields ==
    IF program = "DebateTournament"
    THEN {"voter_id", "winner_id", "reasoning", "vote"}
    ELSE {"voter_id", "winner_id", "reasoning"}

\* The vote recorded is for choice `letter`.
RecordedAs(letter) ==
    /\ ParsedVote.winner_id = (IF letter = "A" THEN 0 ELSE 1)
    /\ program = "DebateTournament" => ParsedVote.vote = letter

\* C19 (as claimed): a reply whose first 10 characters hold no marker, or
\* both markers A and B, is recorded as choice B.
C19_AmbiguousIsB ==
    pc = "parsed" =>
        LET window == WindowChars(response[1]) IN
        ({"A", "B"} \cap window = {} \/ {"A", "B"} \subseteq window)
            => RecordedAs("B")

\* C19 (amended): a reply whose first 10 characters hold no marker is
\* recorded as the default choice B, one whose first 10 characters hold
\* both markers as choice A; either is recorded with the fields of any
\* other vote, the reply as its reasoning, and nothing marks it.
C19_AmbiguousResolved ==
    pc = "parsed" =>
        LET window == WindowChars(response[1]) IN
        /\ {"A", "B"} \cap window = {} => RecordedAs("B")
        /\ {"A", "B"} \subseteq window => RecordedAs("A")
        /\ DOMAIN ParsedVote = VoteFields
        /\ ParsedVote.voter_id = 2
        /\ ParsedVote.reasoning = response[1]
        /\ Len(local.debate_votes) = 1

\* A reply that starts with B and has an A inside the window is recorded
\* as A.
C19_Witness ==
    /\ pc = "parsed"
    /\ response[1] # <<>> /\ response[1][1] = "B"
    /\ "A" \in WindowChars(response[1])
    /\ ParsedVote.winner_id = 0

\* The backend calls of a whole run: a position for every agent, four calls
\* a debate, n - 2 votes a debate.
CallsOfRun == num_agents + 4 * NumPairs + (num_agents - 2) * NumPairs

\* C20 (as claimed): for every n >= 2 a run makes no more than the finitely
\* many calls of its phases, no phase raises an error whatever the texts
\* returned, and a run in which every call returned ends with the final
\* results written.
C20_RunCompletes ==
    /\ calls <= CallsOfRun
    /\ pc # "error"
    /\ (pc \notin {"positions", "debates", "voting", "results", "failed"})
          => (Aggregated /\ calls = CallsOfRun)

\* C21: records are write-once.  A position once set, an entry of the
\* positions store (or of the societies) once made and a debate once
\* appended never change; from the end of phase 1 on no position and no
\* entry of the store changes or is added, and the voting and aggregation
\* phases leave positions and debates as they are.
C21_WriteOnce ==
    [][/\ IsPrefix(positions, positions')
       /\ IsPrefix(societies, societies')
       /\ IsPrefix(debates, debates')
       /\ program = "DebateTournament" =>
            \A a \in AgentIds :
               /\ agents[a].initial_position # None =>
                    agents'[a].initial_position = agents[a].initial_position
               /\ pc # "positions" =>
                    agents'[a].initial_position = agents[a].initial_position
       /\ pc # "positions" => (positions' = positions /\ societies' = societies)
       /\ pc \in {"voting", "results"} => debates' = debates
      ]_vars

\* A tournament of MaxAgents agents has run to its end.
C21_Witness ==
    /\ pc = "done" /\ num_agents = MaxAgents
    /\ Len(debates) = NumPairs /\ Len(votes) = NumPairs
    /\ Len(positions) = num_agents \/ Len(societies) = num_agents

\* The user turns and the assistant turns of a history.
TurnsOf(history, role) ==
    Cardinality({k \in 1 .. Len(history) : history[k].role = role})

\* C22: in every state and for every agent, get_metrics reports a
\* conversation length that is the length of the history and exactly twice
\* the total of responses, which is the number of latencies recorded, one
\* for each user turn and each assistant turn; with no call made both are
\* 0 and average, minimum and maximum latency are 0.  The step that
\* collects the metrics into the results changes no agent.
C22_HistoryTwiceResponses ==
    /\ [](program = "DebateTournament" =>
            \A a \in AgentIds :
               LET metrics == get_metrics(agents[a])
                   history == agents[a].conversation_history
               IN /\ metrics.conversation_length = Len(history)
                  /\ metrics.total_responses = TurnsOf(history, "assistant")
                  /\ metrics.total_responses = TurnsOf(history, "user")
                  /\ metrics.conversation_length = 2 * metrics.total_responses
                  /\ history = <<>> =>
                       /\ metrics.total_responses = 0
                       /\ metrics.avg_response_time = 0
                       /\ metrics.min_response_time = 0
                       /\ metrics.max_response_time = 0
                  /\ history # <<>> => metrics.min_response_time > 0)
    /\ [][(/\ program = "DebateTournament"
           /\ files'["tournament_results.json"] # files["tournament_results.json"])
          => /\ agents' = agents
             /\ \A a \in AgentIds :
                  LET reported == files'["tournament_results.json"][1]
                                      .agent_performance[a + 1][2]
                  IN /\ reported.conversation_length
                          = Len(agents[a].conversation_history)
                     /\ reported.conversation_length = 2 * reported.total_responses
         ]_vars

\* The results hold the metrics of MaxAgents agents, each with its position,
\* its debates and its votes behind it.
C22_Witness ==
    /\ program = "DebateTournament" /\ num_agents = MaxAgents /\ Aggregated
    /\ \A a \in AgentIds :
         Results.agent_performance[a + 1][2].total_responses
            = 1 + 2 * (num_agents - 1) + ((num_agents - 1) * (num_agents - 2)) \div 2

====
